---- MODULE Spec2Model ----
(***************************************************************************)
(* A state-machine model of src/MicrosoftDemangle.cpp: the recursive-      *)
(* descent parser Demangler::parse with its cursor (class String), its     *)
(* back-reference table and its pool of Type nodes, followed by the        *)
(* printer Demangler::str.  Bytes are one-character strings, byte strings  *)
(* are sequences of them.  A step of the machine is the code that runs     *)
(* between two calls of a composite reader (read_name, read_var_type, the  *)
(* parameter loops); the leaf readers are operators on a machine record.   *)
(***************************************************************************)
EXTENDS Integers, Sequences, FiniteSets

VARIABLES
  buf,            \* the caller's buffer (argv[1]); never mutated
  input,          \* Demangler::input, the cursor: [p, len], p an offset into buf
  error,          \* Demangler::error
  symbol,         \* Demangler::symbol
  types,          \* Demangler::type (node 0) and type_buffer[0..19] (nodes 1..20)
  type_index,     \* Demangler::type_index
  repeated_names, \* Demangler::repeated_names
  stack,          \* the call stack of the composite readers, top first
  pc,             \* "parsing", "parsed", "printed", "failed", "bad_alloc", "ub"
  os,             \* Demangler::os, the printer's output
  ops             \* the cursor primitives and read_number calls of the latest step

vars == <<buf, input, error, symbol, types, type_index, repeated_names,
          stack, pc, os, ops>>

(***************************************************************************)
(* Bounds of the model.                                                    *)
(***************************************************************************)
MaxRawLen == 4      \* longest input of the exhaustive family
MaxTailLen == 3     \* longest tail appended to a family prefix
MaxNames == 12      \* elements a name path holds before std::bad_alloc

(***************************************************************************)
(* Program constants.                                                      *)
(***************************************************************************)
TypeBufferSize == 20
MaxRepeatedNames == 10

Const == 1
Volatile == 2
Far == 4

Public == 1
Protected == 2
Private == 4
Global == 8
Static == 16
Virtual == 32
FFar == 64

NULL == -1          \* nullptr, as a node id
EOF == "EOF"        \* the int -1 that String::get returns at end of input
Uninit == "Uninit"  \* a field with no initializer that was never written

NoError == [msg |-> "", arg |-> <<>>]

Digits == <<"0", "1", "2", "3", "4", "5", "6", "7", "8", "9">>
HexDigits == <<"A", "B", "C", "D", "E", "F", "G", "H",
               "I", "J", "K", "L", "M", "N", "O", "P">>
Upper == {"A", "B", "C", "D", "E", "F", "G", "H", "I", "J", "K", "L", "M",
          "N", "O", "P", "Q", "R", "S", "T", "U", "V", "W", "X", "Y", "Z"}
Lower == {"a", "b", "c", "d", "e", "f", "g", "h", "i", "j", "k", "l", "m",
          "n", "o", "p", "q", "r", "s", "t", "u", "v", "w", "x", "y", "z"}

Range(s) == {s[i] : i \in 1..Len(s)}
IndexOf(s, c) == CHOOSE i \in 1..Len(s) : s[i] = c
IsDigit(c) == c \in Range(Digits)
IsHexDigit(c) == c \in Range(HexDigits)
DigitVal(c) == IndexOf(Digits, c) - 1
HexVal(c) == IndexOf(HexDigits, c) - 1
IsAlpha(c) == c \in Upper \cup Lower

(***************************************************************************)
(* class String.  A machine record m carries the cursor (p, len), the      *)
(* error slot, the Type pool and the log of primitives; ret is the value   *)
(* the last operation returned.                                            *)
(***************************************************************************)
Log(m, e) == [m EXCEPT !.ops = Append(@, e)]

\* input.p[i]; "OOB" stands for whatever lies outside the buffer
Byte(m, i) == IF m.p + i \in 0..(Len(buf) - 1) THEN buf[m.p + i + 1] ELSE "OOB"

\* the inspection of input.p[i], logged
Peek(m, i) == Log(m, [op |-> "peek", at |-> m.p + i])

\* input.str()
InputStr(m) == SubSeq(buf, m.p + 1, m.p + m.len)

\* String::trim; the log keeps what its assert compares
Trim(m, n) ==
  [Log(m, [op |-> "trim", n |-> n, len |-> m.len])
     EXCEPT !.p = m.p + n, !.len = m.len - n]

\* startswith(const std::string &): strncmp runs only when s fits
StartsWith(m, s) ==
  /\ Len(s) <= m.len
  /\ \A i \in 1..Len(s) : Byte(m, i - 1) = s[i]

LogStartsWith(m, s) ==
  IF Len(s) <= m.len /\ Len(s) > 0 THEN Peek(m, Len(s) - 1) ELSE m

\* Demangler::consume, both overloads
Consume(m, s) ==
  IF StartsWith(m, s)
  THEN [Trim(LogStartsWith(m, s), Len(s)) EXCEPT !.ret = TRUE]
  ELSE [LogStartsWith(m, s) EXCEPT !.ret = FALSE]

\* startswith(char)
StartsWithChar(m, c) == m.len > 0 /\ Byte(m, 0) = c

\* String::get
Get(m) ==
  IF m.len = 0
  THEN [Log(m, [op |-> "get", c |-> EOF, p |-> m.p, len |-> m.len])
          EXCEPT !.ret = EOF]
  ELSE [Log(Peek(m, 0), [op |-> "get", c |-> Byte(m, 0), p |-> m.p, len |-> m.len])
          EXCEPT !.ret = Byte(m, 0), !.p = m.p + 1, !.len = m.len - 1]

\* String::unget without its test for the end-of-input value
UngetNoEofCheck(m, c) ==
  [Log(m, [op |-> "unget", c |-> c, p |-> m.p - 1, len |-> m.len + 1])
     EXCEPT !.p = m.p - 1, !.len = m.len + 1]

\* String::unget
Unget(m, c) ==
  IF c = EOF
  THEN Log(m, [op |-> "unget", c |-> c, p |-> m.p, len |-> m.len])
  ELSE [Log(m, [op |-> "unget", c |-> c, p |-> m.p - 1, len |-> m.len + 1])
          EXCEPT !.p = m.p - 1, !.len = m.len + 1]

\* an assignment to Demangler::error, logged
SetError(m, msg, arg) ==
  [Log(m, [op |-> "error", msg |-> msg]) EXCEPT !.error = [msg |-> msg, arg |-> arg]]

RECURSIVE CountOp(_, _)
CountOp(log, op) ==
  IF log = <<>> THEN 0
  ELSE (IF Head(log).op = op THEN 1 ELSE 0) + CountOp(Tail(log), op)

(***************************************************************************)
(* The leaf readers.  Each takes the machine record and returns it with    *)
(* the cursor advanced, the error slot written and ret set.                *)
(***************************************************************************)
Negate(neg, n) == IF neg THEN 0 - n ELSE n

\* the for loop of read_number at index i with the value acc read so far
\* (the inputs of the model are too short for acc to leave int32_t)
RECURSIVE HexLoop(_, _, _, _)
HexLoop(m, i, acc, neg) ==
  IF i >= m.len
  THEN [SetError(m, "bad number", <<>>) EXCEPT !.ret = 0]
  ELSE LET c == Byte(m, i)
           m1 == Peek(m, i)
       IN  IF c = "@"
           THEN [Trim(m1, i + 1) EXCEPT !.ret = Negate(neg, acc)]
           ELSE IF IsHexDigit(c)
                THEN HexLoop(m1, i + 1, acc * 16 + HexVal(c), neg)
                ELSE [SetError(m1, "bad number", <<>>) EXCEPT !.ret = 0]

ReadNumberBody(m) ==
  LET m1 == Consume(m, <<"?">>)
      neg == m1.ret
  IN  IF 0 < m1.len /\ IsDigit(Byte(m1, 0))
      THEN [Trim(Peek(m1, 0), 1) EXCEPT !.ret = Negate(neg, DigitVal(Byte(m1, 0)) + 1)]
      ELSE HexLoop(IF 0 < m1.len THEN Peek(m1, 0) ELSE m1, 0, 0, neg)

\* Demangler::read_number; the call is logged with the cursor before (at) and
\* after (end), the value returned and whether it left the error slot alone
ReadNumber(m) ==
  LET r == ReadNumberBody(m)
  IN  Log(r, [op |-> "read_number", at |-> m.p, end |-> r.p, ret |-> r.ret,
              ok |-> CountOp(r.ops, "error") = CountOp(m.ops, "error")])

\* the for loop of read_string at index i
RECURSIVE StringLoop(_, _)
StringLoop(m, i) ==
  IF i >= m.len
  THEN [SetError(m, "read_string: missing '@': ", InputStr(m)) EXCEPT !.ret = <<>>]
  ELSE IF Byte(m, i) # "@"
       THEN StringLoop(Peek(m, i), i + 1)
       ELSE [Trim(Peek(m, i), i + 1) EXCEPT !.ret = SubSeq(buf, m.p + 1, m.p + i)]

\* Demangler::read_string
ReadString(m) == StringLoop(m, 0)

FuncClassTable ==
  [c \in {"A", "B", "C", "D", "E", "F", "I", "J", "K", "L", "M", "N",
          "Q", "R", "S", "T", "U", "V", "Y", "Z"} |->
     CASE c = "A" -> Private
       [] c = "B" -> Private + FFar
       [] c = "C" -> Private + Static
       [] c = "D" -> Private + Static
       [] c = "E" -> Private + Virtual
       [] c = "F" -> Private + Virtual
       [] c = "I" -> Protected
       [] c = "J" -> Protected + FFar
       [] c = "K" -> Protected + Static
       [] c = "L" -> Protected + Static + FFar
       [] c = "M" -> Protected + Virtual
       [] c = "N" -> Protected + Virtual + FFar
       [] c = "Q" -> Public
       [] c = "R" -> Public + FFar
       [] c = "S" -> Public + Static
       [] c = "T" -> Public + Static + FFar
       [] c = "U" -> Public + Virtual
       [] c = "V" -> Public + Virtual + FFar
       [] c = "Y" -> Global
       [] c = "Z" -> Global + FFar]

\* Demangler::read_func_class
ReadFuncClass(m) ==
  LET g == Get(m)
      c == g.ret
  IN  IF c \in DOMAIN FuncClassTable
      THEN [g EXCEPT !.ret = FuncClassTable[c]]
      ELSE LET u == Unget(g, c)
           IN  [SetError(u, "unknown func class: ", InputStr(u)) EXCEPT !.ret = 0]

CallingConvTable ==
  [c \in {"A", "C", "E", "G", "I"} |->
     CASE c = "A" -> "Cdecl"
       [] c = "C" -> "Pascal"
       [] c = "E" -> "Thiscall"
       [] c = "G" -> "Stdcall"
       [] c = "I" -> "Fastcall"]

\* Demangler::read_calling_conv
ReadCallingConv(m) ==
  LET g == Get(m)
      c == g.ret
  IN  IF c \in DOMAIN CallingConvTable
      THEN [g EXCEPT !.ret = CallingConvTable[c]]
      ELSE LET u == Unget(g, c)
           IN  [SetError(u, "unknown calling convention: ", InputStr(u))
                  EXCEPT !.ret = "Cdecl"]

StorageClassTable ==
  [c \in {"A", "B", "C", "D", "E", "F", "G", "H"} |->
     CASE c = "A" -> 0
       [] c = "B" -> Const
       [] c = "C" -> Volatile
       [] c = "D" -> Const + Volatile
       [] c = "E" -> Far
       [] c = "F" -> Const + Far
       [] c = "G" -> Volatile + Far
       [] c = "H" -> Const + Volatile + Far]

\* Demangler::read_storage_class
ReadStorageClass(m) ==
  LET g == Get(m)
      c == g.ret
  IN  IF c \in DOMAIN StorageClassTable
      THEN [g EXCEPT !.ret = StorageClassTable[c]]
      ELSE [Unget(g, c) EXCEPT !.ret = 0]

\* Demangler::read_storage_class_for_return
ReadStorageClassForReturn(m) ==
  LET a == Consume(m, <<"?", "A">>)
      b == Consume(a, <<"?", "B">>)
      c == Consume(b, <<"?", "C">>)
      d == Consume(c, <<"?", "D">>)
  IN  IF a.ret THEN [a EXCEPT !.ret = 0]
      ELSE IF b.ret THEN [b EXCEPT !.ret = Const]
      ELSE IF c.ret THEN [c EXCEPT !.ret = Volatile]
      ELSE IF d.ret THEN [d EXCEPT !.ret = Const + Volatile]
      ELSE [d EXCEPT !.ret = 0]

PrimTable ==
  [c \in {"X", "D", "C", "E", "F", "G", "H", "I", "J", "K", "M", "N", "O"} |->
     CASE c = "X" -> "Void"
       [] c = "D" -> "Char"
       [] c = "C" -> "Schar"
       [] c = "E" -> "Uchar"
       [] c = "F" -> "Short"
       [] c = "G" -> "Ushort"
       [] c = "H" -> "Int"
       [] c = "I" -> "Uint"
       [] c = "J" -> "Long"
       [] c = "K" -> "Ulong"
       [] c = "M" -> "Float"
       [] c = "N" -> "Double"
       [] c = "O" -> "Ldouble"]

\* Demangler::read_prim_type
ReadPrimType(m) ==
  LET g == Get(m)
      c == g.ret
  IN  IF c \in DOMAIN PrimTable
      THEN [g EXCEPT !.ret = PrimTable[c]]
      ELSE LET u == Unget(g, c)
               n == Consume(u, <<"_", "N">>)
               j == Consume(n, <<"_", "J">>)
               k == Consume(j, <<"_", "K">>)
               w == Consume(k, <<"_", "W">>)
           IN  IF n.ret THEN [n EXCEPT !.ret = "Bool"]
               ELSE IF j.ret THEN [j EXCEPT !.ret = "Llong"]
               ELSE IF k.ret THEN [k EXCEPT !.ret = "Ullong"]
               ELSE IF w.ret THEN [w EXCEPT !.ret = "Wchar"]
               ELSE [SetError(w, "unknown primitive type: ", InputStr(w))
                       EXCEPT !.ret = "Unknown"]

(***************************************************************************)
(* struct Type and the pool.  Node 0 is Demangler::type, node i (1..20) is *)
(* type_buffer[i - 1].  prim, calling_conv, func_class and len have no     *)
(* initializer.                                                            *)
(***************************************************************************)
InitType ==
  [prim |-> Uninit, sclass |-> 0, ptr |-> NULL, calling_conv |-> Uninit,
   func_class |-> Uninit, len |-> Uninit, name |-> <<>>, params |-> <<>>]

\* a write through a Type pointer; a pointer past type_buffer is undefined
SetField(m, id, f, val) ==
  IF id \in DOMAIN m.types
  THEN [m EXCEPT !.types[id][f] = val]
  ELSE [m EXCEPT !.ub = TRUE]

PushParam(m, id, tp) ==
  IF tp = NULL THEN m
  ELSE IF id \in DOMAIN m.types
       THEN [m EXCEPT !.types[id].params = Append(@, tp)]
       ELSE [m EXCEPT !.ub = TRUE]

\* Demangler::alloc: type_buffer + type_index++, with no test against the
\* 20 slots; the 21st call yields a pointer past the array
Alloc(m) ==
  [m EXCEPT !.ret = m.type_index + 1,
            !.type_index = m.type_index + 1,
            !.ub = m.ub \/ m.type_index >= TypeBufferSize]

(***************************************************************************)
(* The call stack.  A frame names the function and the source line at      *)
(* which it resumes; ty, tp, v, i, n are its parameters and locals.        *)
(***************************************************************************)
Frame(fn, at, ty) ==
  [fn |-> fn, at |-> at, ty |-> ty, tp |-> NULL, v |-> <<>>, i |-> 0, n |-> 0]

top == stack[1]
rest == Tail(stack)
At(fn, at) == pc = "parsing" /\ stack # <<>> /\ top.fn = fn /\ top.at = at

\* the machine record of the current state, with an empty log
Cur ==
  [p |-> input.p, len |-> input.len, error |-> error, ops |-> <<>>, ret |-> 0,
   types |-> types, type_index |-> type_index, ub |-> FALSE]

\* the state after a step that leaves machine record m and call stack st
Commit(m, st) ==
  /\ input' = [p |-> m.p, len |-> m.len]
  /\ error' = m.error
  /\ ops' = m.ops
  /\ types' = m.types
  /\ type_index' = m.type_index
  /\ stack' = st
  /\ pc' = IF m.ub THEN "ub" ELSE IF st = <<>> THEN "parsed" ELSE "parsing"

CallVarType(ty) == Frame("read_var_type", 490, ty)
CallName == Frame("read_name", 354, NULL)

(***************************************************************************)
(* Demangler::parse, lines 249-258.                                        *)
(***************************************************************************)
ParseStart ==
  /\ At("parse", 251)
  /\ LET c == Consume(Cur, <<"?">>)
     IN  IF c.ret
         THEN /\ Commit(c, <<CallName, Frame("parse", 258, 0)>>)
              /\ symbol' = symbol
         ELSE /\ Commit(SetField(c, 0, "prim", "Unknown"),
                        <<CallName, Frame("parse", 258, 0)>>)
              /\ symbol' = Append(symbol, InputStr(c))
  /\ UNCHANGED <<buf, repeated_names, os>>

(***************************************************************************)
(* Demangler::read_name, one iteration of its loop per step.  The return   *)
(* step also runs the caller's assignment of the returned vector.          *)
(***************************************************************************)
ReturnName(m, v) ==
  LET caller == Head(rest)
  IN  IF caller.fn = "parse"
      THEN /\ symbol' = v
           /\ Commit(m, <<Frame("parse", 261, 0)>> \o Tail(rest))
      ELSE /\ symbol' = symbol
           /\ Commit(SetField(m, caller.ty, "name", v), Tail(rest))

ReadNameEnd ==
  /\ At("read_name", 354)
  /\ Consume(Cur, <<"@">>).ret
  /\ ReturnName(Consume(Cur, <<"@">>), top.v)
  /\ UNCHANGED <<buf, repeated_names, os>>

IsBackRef(m) == 0 < m.len /\ IsDigit(Byte(m, 0))

\* v.push_back(s): std::bad_alloc once the vector holds MaxNames elements
PushName(m, s) ==
  IF Len(top.v) >= MaxNames
  THEN /\ input' = [p |-> m.p, len |-> m.len]
       /\ error' = m.error
       /\ ops' = m.ops
       /\ pc' = "bad_alloc"
       /\ UNCHANGED <<types, type_index, stack>>
  ELSE Commit(m, <<[top EXCEPT !.v = Append(@, s)]>> \o rest)

ReadNameBackRef ==
  /\ At("read_name", 354)
  /\ LET c == Consume(Cur, <<"@">>)
         i == DigitVal(Byte(c, 0))
     IN  /\ ~c.ret
         /\ IsBackRef(c)
         /\ IF i >= Len(repeated_names)
            THEN ReturnName(SetError(Peek(c, 0), "name reference too large: ",
                                     InputStr(c)), <<>>)
            ELSE /\ PushName(Trim(Peek(c, 0), 1), repeated_names[i + 1])
                 /\ symbol' = symbol
  /\ UNCHANGED <<buf, repeated_names, os>>

\* Register with the test of the table's size off by one
RegisterOffByOne(names, s) ==
  IF Len(names) <= MaxRepeatedNames THEN Append(names, s) ELSE names

\* repeated_names after read_name has read the string s
Register(names, s) ==
  IF Len(names) < MaxRepeatedNames THEN Append(names, s) ELSE names

ReadNameString ==
  /\ At("read_name", 354)
  /\ LET c == Consume(Cur, <<"@">>)
         r == ReadString(IF 0 < c.len THEN Peek(c, 0) ELSE c)
     IN  /\ ~c.ret
         /\ ~IsBackRef(c)
         /\ PushName(r, r.ret)
         /\ repeated_names' =
              IF Len(top.v) >= MaxNames THEN repeated_names
              ELSE Register(repeated_names, r.ret)
  /\ UNCHANGED <<buf, symbol, os>>

(***************************************************************************)
(* Demangler::parse, lines 260-298.                                        *)
(***************************************************************************)
ParseVariable ==
  /\ At("parse", 261)
  /\ Consume(Cur, <<"3">>).ret
  /\ Commit(Consume(Cur, <<"3">>), <<CallVarType(0)>> \o rest)
  /\ UNCHANGED <<buf, symbol, repeated_names, os>>

ParseFreeFunction ==
  /\ At("parse", 261)
  /\ LET c3 == Consume(Cur, <<"3">>)
         cy == Consume(c3, <<"Y">>)
         cc == ReadCallingConv(SetField(cy, 0, "prim", "Function"))
         a == Alloc(SetField(cc, 0, "calling_conv", cc.ret))
         ret == a.ret
         sc == ReadStorageClassForReturn(SetField(a, 0, "ptr", ret))
     IN  /\ ~c3.ret
         /\ cy.ret
         /\ Commit(SetField(sc, ret, "sclass", sc.ret),
                   <<CallVarType(ret), Frame("parse", 275, 0)>> \o rest)
  /\ UNCHANGED <<buf, symbol, repeated_names, os>>

\* lines 284-291 with read_func_return_type up to its call of read_var_type
ParseMemberFunction ==
  /\ At("parse", 261)
  /\ LET c3 == Consume(Cur, <<"3">>)
         cy == Consume(c3, <<"Y">>)
         fc == ReadFuncClass(SetField(cy, 0, "prim", "Function"))
         ce == Consume(SetField(fc, 0, "func_class", fc.ret), <<"E">>)
         cc == ReadCallingConv(ce)
         a == Alloc(SetField(cc, 0, "calling_conv", cc.ret))
         ret == a.ret
         sc == ReadStorageClass(SetField(a, 0, "ptr", ret))
         at == Consume(SetField(sc, ret, "sclass", sc.ret), <<"@">>)
     IN  /\ ~c3.ret
         /\ ~cy.ret
         /\ IF at.ret
            THEN Commit(SetField(at, ret, "prim", "None"),
                        <<Frame("parse", 293, 0)>> \o rest)
            ELSE Commit(at, <<CallVarType(ret),
                              Frame("read_func_return_type", 450, ret),
                              Frame("parse", 293, 0)>> \o rest)
  /\ UNCHANGED <<buf, symbol, repeated_names, os>>

\* Demangler::read_func_return_type, line 450
ReturnTypeExpect ==
  /\ At("read_func_return_type", 450)
  /\ Commit(Consume(Cur, <<"@">>), rest)
  /\ UNCHANGED <<buf, symbol, repeated_names, os>>

\* A parameter loop: the push_back that ends the previous iteration, the
\* loop test, and the iteration up to its call of read_var_type.
ParamLoop(m, more) ==
  LET pushed == PushParam(m, top.ty, top.tp)
      a == Alloc(pushed)
  IN  IF more
      THEN Commit(a, <<CallVarType(a.ret), [top EXCEPT !.tp = a.ret]>> \o rest)
      ELSE Commit(pushed, rest)

PeekFirst(m) == IF m.len > 0 THEN Peek(m, 0) ELSE m

\* line 275
FreeParams ==
  /\ At("parse", 275)
  /\ ParamLoop(IF error = NoError THEN PeekFirst(Cur) ELSE Cur,
               error = NoError /\ input.len # 0 /\ ~StartsWithChar(Cur, "@"))
  /\ UNCHANGED <<buf, symbol, repeated_names, os>>

\* line 293
MemberParams ==
  /\ At("parse", 293)
  /\ ParamLoop(IF error = NoError THEN PeekFirst(Cur) ELSE Cur,
               error = NoError /\ input.len # 0 /\ ~StartsWithChar(Cur, "Z"))
  /\ UNCHANGED <<buf, symbol, repeated_names, os>>

\* line 521: consume("@Z") and consume("Z") run only while the tests before
\* them pass
FuncPtrParams ==
  /\ At("read_var_type", 521)
  /\ LET c1 == Consume(Cur, <<"@", "Z">>)
         c2 == Consume(c1, <<"Z">>)
     IN  IF error # NoError THEN ParamLoop(Cur, FALSE)
         ELSE IF c1.ret THEN ParamLoop(c1, FALSE)
         ELSE ParamLoop(c2, ~c2.ret)
  /\ UNCHANGED <<buf, symbol, repeated_names, os>>

\* line 637
TemplateParams ==
  /\ At("read_class", 637)
  /\ LET c == Consume(Cur, <<"@">>)
     IN  IF error # NoError THEN ParamLoop(Cur, FALSE)
         ELSE ParamLoop(c, ~c.ret)
  /\ UNCHANGED <<buf, symbol, repeated_names, os>>

(***************************************************************************)
(* Demangler::read_var_type and Demangler::read_class.                     *)
(***************************************************************************)
\* std::to_string(int) and operator<<(int)
RECURSIVE nat_to_string(_)
nat_to_string(n) ==
  IF n < 10 THEN <<Digits[n + 1]>>
  ELSE Append(nat_to_string(n \div 10), Digits[(n % 10) + 1])

to_string(n) == IF n < 0 THEN <<"-">> \o nat_to_string(0 - n) ELSE nat_to_string(n)

VarTypeTags ==
  << <<"T">>, <<"U">>, <<"V">>, <<"W", "4">>, <<"P", "6", "A">>,
     <<"A">>, <<"P">>, <<"Q">>, <<"Y">> >>

\* the chain of if (consume(...)) tests from the k-th on: ret is the number
\* of the first tag consumed, 0 when none is
RECURSIVE FirstConsume(_, _, _)
FirstConsume(m, tags, k) ==
  IF k > Len(tags) THEN [m EXCEPT !.ret = 0]
  ELSE LET c == Consume(m, tags[k])
       IN  IF c.ret THEN [c EXCEPT !.ret = k] ELSE FirstConsume(c, tags, k + 1)

Dispatch == FirstConsume(Cur, VarTypeTags, 1)

\* lines 491-504 and read_class up to its first call
VarTypeClass ==
  /\ At("read_var_type", 490)
  /\ Dispatch.ret \in {1, 2, 3}
  /\ LET prim == <<"Union", "Struct", "Class">>[Dispatch.ret]
         t == Consume(SetField(Dispatch, top.ty, "prim", prim), <<"?", "$">>)
         r == ReadString(t)
     IN  IF t.ret
         THEN Commit(SetField(r, top.ty, "name", Append(types[top.ty].name, r.ret)),
                     <<Frame("read_class", 637, top.ty)>> \o rest)
         ELSE Commit(t, <<CallName, Frame("read_class", 644, top.ty)>> \o rest)
  /\ UNCHANGED <<buf, symbol, repeated_names, os>>

\* lines 506-510
VarTypeEnum ==
  /\ At("read_var_type", 490)
  /\ Dispatch.ret = 4
  /\ Commit(SetField(Dispatch, top.ty, "prim", "Enum"),
            <<CallName, Frame("read_var_type", 508, top.ty)>> \o rest)
  /\ UNCHANGED <<buf, symbol, repeated_names, os>>

\* lines 512-519
VarTypeFuncPtr ==
  /\ At("read_var_type", 490)
  /\ Dispatch.ret = 5
  /\ LET a1 == Alloc(SetField(Dispatch, top.ty, "prim", "Ptr"))
         fn == a1.ret
         a2 == Alloc(SetField(SetField(a1, top.ty, "ptr", fn), fn, "prim", "Function"))
     IN  Commit(SetField(a2, fn, "ptr", a2.ret),
                <<CallVarType(a2.ret), Frame("read_var_type", 521, fn)>> \o rest)
  /\ UNCHANGED <<buf, symbol, repeated_names, os>>

\* lines 529-555: A, P and Q
VarTypeIndirect ==
  /\ At("read_var_type", 490)
  /\ Dispatch.ret \in {6, 7, 8}
  /\ LET k == Dispatch.ret
         p1 == SetField(Dispatch, top.ty, "prim", IF k = 6 THEN "Ref" ELSE "Ptr")
         p2 == IF k = 8 THEN SetField(p1, top.ty, "sclass", Const) ELSE p1
         a == Alloc(Consume(p2, <<"E">>))
         sc == ReadStorageClass(SetField(a, top.ty, "ptr", a.ret))
     IN  Commit(SetField(sc, a.ret, "sclass", sc.ret), <<CallVarType(a.ret)>> \o rest)
  /\ UNCHANGED <<buf, symbol, repeated_names, os>>

\* lines 557-564
VarTypeArray ==
  /\ At("read_var_type", 490)
  /\ Dispatch.ret = 9
  /\ LET d == ReadNumber(Dispatch)
     IN  IF d.ret <= 0
         THEN Commit(SetError(d, "invalid array dimension: ", to_string(d.ret)), rest)
         ELSE Commit(d, <<[Frame("read_var_type", 565, top.ty)
                             EXCEPT !.tp = top.ty, !.n = d.ret]>> \o rest)
  /\ UNCHANGED <<buf, symbol, repeated_names, os>>

\* lines 565-570, one iteration
ArrayDim ==
  /\ At("read_var_type", 565)
  /\ top.i < top.n
  /\ LET n == ReadNumber(SetField(Cur, top.tp, "prim", "Array"))
         a == Alloc(SetField(n, top.tp, "len", n.ret))
     IN  Commit(SetField(a, top.tp, "ptr", a.ret),
                <<[top EXCEPT !.tp = a.ret, !.i = top.i + 1]>> \o rest)
  /\ UNCHANGED <<buf, symbol, repeated_names, os>>

\* lines 572-581
ArrayElem ==
  /\ At("read_var_type", 565)
  /\ ~(top.i < top.n)
  /\ LET q == Consume(Cur, <<"$", "$", "C">>)
         b == Consume(q, <<"B">>)
         c == Consume(b, <<"C">>)
         d == Consume(c, <<"D">>)
         a == Consume(d, <<"A">>)
         m == IF ~q.ret THEN q
              ELSE IF b.ret THEN SetField(b, top.ty, "sclass", Const)
              ELSE IF c.ret THEN SetField(c, top.ty, "sclass", Const + Volatile)
              ELSE IF d.ret THEN SetField(d, top.ty, "sclass", Const + Volatile)
              ELSE IF a.ret THEN a
              ELSE SetError(a, "unkonwn storage class: ", InputStr(a))
     IN  Commit(m, <<CallVarType(top.tp)>> \o rest)
  /\ UNCHANGED <<buf, symbol, repeated_names, os>>

\* line 585
VarTypePrim ==
  /\ At("read_var_type", 490)
  /\ Dispatch.ret = 0
  /\ LET r == ReadPrimType(Dispatch)
     IN  Commit(SetField(r, top.ty, "prim", r.ret), rest)
  /\ UNCHANGED <<buf, symbol, repeated_names, os>>

(***************************************************************************)
(* The printer.  Each operator takes the stream contents o written so far  *)
(* and returns them with its output appended.                              *)
(***************************************************************************)
\* write_space without its isalpha test
write_space_after_any(o) ==
  IF o # <<>> THEN Append(o, " ") ELSE o

\* Demangler::write_space
write_space(o) ==
  IF o # <<>> /\ IsAlpha(o[Len(o)]) THEN Append(o, " ") ELSE o

\* String::startswith(const std::string &) on a stored name fragment
FragStartsWith(f, s) == Len(s) <= Len(f) /\ SubSeq(f, 1, Len(s)) = s

\* String::substr(off)
substr(f, off) == SubSeq(f, off + 1, Len(f))

\* the loop of write_name, from index i (0-based) down to 1
RECURSIVE WriteScopes(_, _, _)
WriteScopes(o, name, i) ==
  IF i = 0 THEN o
  ELSE WriteScopes(o \o name[i + 1] \o <<":", ":">>, name, i - 1)

\* Demangler::write_name
write_name(o, name) ==
  IF name = <<>> THEN o
  ELSE LET o1 == WriteScopes(write_space(o), name, Len(name) - 1)
           n0 == name[1]
       IN  IF FragStartsWith(n0, <<"?", "0">>)
           THEN o1 \o substr(n0, 2) \o <<":", ":">> \o substr(n0, 2)
           ELSE IF FragStartsWith(n0, <<"?", "1">>)
                THEN o1 \o substr(n0, 2) \o <<":", ":", "~">> \o substr(n0, 2)
                ELSE o1 \o n0

PrimText ==
  [p \in {"Void", "Bool", "Char", "Schar", "Uchar", "Short", "Ushort", "Int",
          "Uint", "Long", "Ulong", "Llong", "Ullong", "Wchar", "Float",
          "Double", "Ldouble"} |->
     CASE p = "Void" -> <<"v", "o", "i", "d">>
       [] p = "Bool" -> <<"b", "o", "o", "l">>
       [] p = "Char" -> <<"c", "h", "a", "r">>
       [] p = "Schar" -> <<"s", "i", "g", "n", "e", "d", " ", "c", "h", "a", "r">>
       [] p = "Uchar" -> <<"u", "n", "s", "i", "g", "n", "e", "d", " ", "c", "h", "a", "r">>
       [] p = "Short" -> <<"s", "h", "o", "r", "t">>
       [] p = "Ushort" -> <<"u", "n", "s", "i", "g", "n", "e", "d", " ", "s", "h", "o", "r", "t">>
       [] p = "Int" -> <<"i", "n", "t">>
       [] p = "Uint" -> <<"u", "n", "s", "i", "g", "n", "e", "d", " ", "i", "n", "t">>
       [] p = "Long" -> <<"l", "o", "n", "g">>
       [] p = "Ulong" -> <<"u", "n", "s", "i", "g", "n", "e", "d", " ", "l", "o", "n", "g">>
       [] p = "Llong" -> <<"l", "o", "n", "g", " ", "l", "o", "n", "g">>
       [] p = "Ullong" -> <<"u", "n", "s", "i", "g", "n", "e", "d", " ",
                            "l", "o", "n", "g", " ", "l", "o", "n", "g">>
       [] p = "Wchar" -> <<"w", "c", "h", "a", "r", "_", "t">>
       [] p = "Float" -> <<"f", "l", "o", "a", "t">>
       [] p = "Double" -> <<"d", "o", "u", "b", "l", "e">>
       [] p = "Ldouble" -> <<"l", "o", "n", "g", " ", "d", "o", "u", "b", "l", "e">>]

ClassKeyword ==
  [p \in {"Struct", "Union", "Class"} |->
     CASE p = "Struct" -> <<"s", "t", "r", "u", "c", "t">>
       [] p = "Union" -> <<"u", "n", "i", "o", "n">>
       [] p = "Class" -> <<"c", "l", "a", "s", "s">>]

IsDeclarator(id) == types[id].prim \in {"Function", "Array"}

\* lines 765-768
WriteConst(o, id) ==
  IF types[id].sclass % 2 = 1
  THEN write_space(o) \o <<"c", "o", "n", "s", "t">>
  ELSE o

RECURSIVE write_pre(_, _), write_post(_, _), write_params_from(_, _, _)

\* Demangler::write_params, from the i-th parameter (1-based) on
write_params_from(o, id, i) ==
  IF i > Len(types[id].params) THEN o
  ELSE LET tp == types[id].params[i]
           o1 == IF i # 1 THEN Append(o, ",") ELSE o
       IN  write_params_from(write_post(write_pre(o1, tp), tp), id, i + 1)

write_params(o, id) == write_params_from(o, id, 1)

\* Demangler::write_class
write_class(o, keyword, id) ==
  LET o1 == write_name(Append(o \o keyword, " "), types[id].name)
  IN  IF types[id].params # <<>>
      THEN Append(write_params(Append(o1, "<"), id), ">")
      ELSE o1

\* Demangler::write_pre.  No parse that ends without an error leaves a node
\* whose prim was never written; the switch has no case for one.
write_pre(o, id) ==
  LET ty == types[id]
  IN  IF ty.prim \in {"Unknown", "None", Uninit} THEN WriteConst(o, id)
      ELSE IF ty.prim = "Function" THEN write_pre(o, ty.ptr)
      ELSE IF ty.prim \in {"Ptr", "Ref"}
           THEN LET o1 == write_pre(o, ty.ptr)
                    o2 == IF IsDeclarator(ty.ptr) THEN Append(o1, "(") ELSE o1
                IN  WriteConst(Append(o2, IF ty.prim = "Ptr" THEN "*" ELSE "&"), id)
      ELSE IF ty.prim = "Array" THEN WriteConst(write_pre(o, ty.ptr), id)
      ELSE IF ty.prim \in DOMAIN ClassKeyword
           THEN WriteConst(write_class(o, ClassKeyword[ty.prim], id), id)
      ELSE IF ty.prim = "Enum"
           THEN WriteConst(write_name(o \o <<"e", "n", "u", "m", " ">>, ty.name), id)
      ELSE WriteConst(o \o PrimText[ty.prim], id)

\* Demangler::write_post
write_post(o, id) ==
  LET ty == types[id]
  IN  IF ty.prim = "Function"
      THEN Append(write_params(Append(o, "("), id), ")")
      ELSE IF ty.prim \in {"Ptr", "Ref"}
           THEN write_post(IF IsDeclarator(ty.ptr) THEN Append(o, ")") ELSE o, ty.ptr)
      ELSE IF ty.prim = "Array"
           THEN write_post(o \o <<"[">> \o to_string(ty.len) \o <<"]">>, ty.ptr)
      ELSE o

\* Demangler::str
str == write_post(write_name(write_pre(os, 0), symbol), 0)

\* main, lines 846-852
Main ==
  /\ pc = "parsed"
  /\ IF error # NoError
     THEN pc' = "failed" /\ os' = os
     ELSE pc' = "printed" /\ os' = str
  /\ ops' = <<>>
  /\ UNCHANGED <<buf, input, error, symbol, types, type_index, repeated_names, stack>>

(***************************************************************************)
(* The inputs.  main hands argv[1] to the Demangler; any byte string       *)
(* without a NUL is a possible input.  The model runs every string of a    *)
(* small alphabet up to a bound, every bounded tail behind the prefixes    *)
(* that lead into the type reader, the number reader and the function      *)
(* bodies, every bounded name path, and a list of whole symbols.           *)
(***************************************************************************)
Strings(alphabet, n) == UNION {[1..k -> alphabet] : k \in 0..n}

RECURSIVE Concat(_)
Concat(ss) == IF ss = <<>> THEN <<>> ELSE Head(ss) \o Concat(Tail(ss))

RawAlphabet == {"?", "@", "a", "0", "3"}
RawInputs == Strings(RawAlphabet, MaxRawLen)

TypeAlphabet == {"P", "Q", "A", "Y", "0", "H", "@"}
TypeInputs == {<<"?", "x", "@", "@", "3">> \o t : t \in Strings(TypeAlphabet, MaxTailLen)}

NumberAlphabet == {"?", "0", "9", "A", "B", "P", "@", "Q", "H"}
NumberInputs ==
  {<<"?", "x", "@", "@", "3", "Y", "0">> \o t : t \in Strings(NumberAlphabet, MaxTailLen)}

BodyAlphabet == {"A", "E", "B", "@", "H", "X", "Z", "P"}
FunctionInputs ==
  {<<"?", "f", "@", "@">> \o h \o t :
     h \in {<<"Y">>, <<>>}, t \in Strings(BodyAlphabet, MaxTailLen)}

StructorInputs ==
  {<<"?", "?">> \o n \o <<"@", "Q">> \o t :
     n \in {<<"1", "A", "@">>, <<"0", "A", "@", "N", "@">>},
     t \in Strings(BodyAlphabet, MaxTailLen)}

NameTokens == {<<"a", "@">>, <<"b", "@">>, <<"0">>, <<"1">>, <<"2">>}
NameInputs ==
  {<<"?">> \o Concat(t) \o <<"@", "3", "H">> : t \in Strings(NameTokens, MaxTailLen + 1)}

Scenarios ==
  {<<"?", "x", "@", "@", "3", "H", "A">>,
   <<"?", "f", "@", "@", "Y", "A", "X", "H", "@", "Z">>,
   <<"?", "g", "@", "@", "Y", "A", "P", "A", "H", "H", "@", "Z">>,
   <<"?", "h", "@", "@", "Y", "A", "H", "Q", "A", "Y", "0", "1", "H", "@", "Z">>,
   <<"?", "?", "0", "A", "@", "@", "Q", "A", "E", "@", "X", "Z">>,
   <<"?", "?", "1", "A", "@", "@", "Q", "A", "E", "@", "X", "Z">>,
   <<"?", "x", "@", "@", "3", "P", "A", "Y", "0", "B", "E", "@", "H">>,
   <<"?", "?", "0", "A", "@", "N", "@", "@", "Q", "A", "E", "@", "X", "Z">>,
   <<"?", "?", "1", "A", "@", "N", "@", "@", "Q", "A", "E", "@", "X", "Z">>,
   <<"?", "?", "0", "A", "@", "@", "Q", "A", "B", "@", "X", "Z">>,
   <<"?", "?", "0", "A", "@", "@", "Q", "E", "A", "A", "@", "X", "Z">>,
   <<"?", "a", "@", "b", "@", "c", "@", "d", "@", "e", "@", "f", "@", "g", "@", "h", "@", "i", "@", "j", "@", "k", "@", "@", "3", "H">>,
   <<"?", "a", "@", "b", "@", "c", "@", "d", "@", "e", "@", "f", "@", "g", "@", "h", "@", "i", "@", "j", "@", "k", "@", "9", "@", "3", "H">>,
   <<"?", "x", "@", "@", "3", "U", "?", "$", "T", "@", "H", "H", "@", "@">>,
   <<"?", "x", "@", "@", "3", "U", "?", "$", "T", "@", "@">>,
   <<"?", "x", "@", "@", "3", "P", "6", "A", "H", "H", "@", "Z">>,
   <<"?", "x", "@", "@", "3", "P", "6", "A", "X", "X", "Z">>,
   <<"?", "x", "@", "@", "3", "W", "4", "E", "@", "@">>,
   <<"?", "x", "@", "@", "3", "V", "C", "@", "N", "@", "@">>,
   <<"?", "x", "@", "@", "3", "T", "U", "@", "@">>,
   <<"?", "x", "@", "@", "3", "Y", "0", "1", "$", "$", "C", "B", "H">>,
   <<"?", "x", "@", "@", "3", "Y", "0", "A", "@", "$", "$", "C", "D", "H">>,
   <<"?", "x", "@", "@", "3", "Y", "0", "$", "$", "C", "Q", "H">>,
   <<"?", "x", "@", "@", "3", "Y", "0", "$", "$", "C", "A", "H">>,
   <<"?", "x", "@", "@", "3", "Y", "0", "$", "$", "C", "C", "H">>,
   <<"?", "x", "@", "@", "3", "A", "E", "B", "H">>,
   <<"?", "x", "@", "@", "3", "_", "N">>,
   <<"?", "x", "@", "@", "3", "_", "J">>,
   <<"?", "x", "@", "@", "3", "_", "K">>,
   <<"?", "x", "@", "@", "3", "_", "W">>,
   <<"?", "f", "@", "@", "Y", "A", "?", "B", "H", "X", "Z">>,
   <<"?", "f", "@", "C", "@", "@", "Q", "A", "E", "P", "A", "H", "Z">>,
   <<"?", "f", "@", "C", "@", "@", "Q", "A", "E", "H", "H", "@", "Z">>,
   <<"?", "x", "@", "@", "3", "Y", "0", "?", "B", "A", "@", "H">>,
   <<"?", "x", "@", "@", "3", "Y", "0", "B", "A", "@", "H">>,
   <<"?", "x", "@", "@", "3", "Y", "B", "F", "@">>,
   <<"?", "f", "@", "@", "Y", "A", "X", "H", "H", "H", "H", "H", "H", "H", "H", "H", "H", "H", "H", "H", "H", "H", "H", "H", "H", "H", "H", "@", "Z">>,
   <<"?", "x", "@", "@", "3", "U", "?", "$", "T", "@", "Y">>,
   <<"x", "@", "@", "3", "H">>}

Inputs ==
  RawInputs \cup TypeInputs \cup NumberInputs \cup FunctionInputs
    \cup StructorInputs \cup NameInputs \cup Scenarios

Init ==
  /\ buf \in Inputs
  /\ input = [p |-> 0, len |-> Len(buf)]
  /\ error = NoError
  /\ symbol = <<>>
  /\ types = [id \in 0..TypeBufferSize |-> InitType]
  /\ type_index = 0
  /\ repeated_names = <<>>
  /\ stack = <<Frame("parse", 251, 0)>>
  /\ pc = "parsing"
  /\ os = <<>>
  /\ ops = <<>>

Next ==
  \/ ParseStart
  \/ ReadNameEnd
  \/ ReadNameBackRef
  \/ ReadNameString
  \/ ParseVariable
  \/ ParseFreeFunction
  \/ ParseMemberFunction
  \/ ReturnTypeExpect
  \/ FreeParams
  \/ MemberParams
  \/ FuncPtrParams
  \/ TemplateParams
  \/ VarTypeClass
  \/ VarTypeEnum
  \/ VarTypeFuncPtr
  \/ VarTypeIndirect
  \/ VarTypeArray
  \/ ArrayDim
  \/ ArrayElem
  \/ VarTypePrim
  \/ Main

Spec == Init /\ [][Next]_vars

(***************************************************************************)
(* Properties.                                                             *)
(***************************************************************************)
Finished == pc \in {"parsed", "printed", "failed", "bad_alloc", "ub"}

InNameLoop == At("read_name", 354)

\* a step that runs the body of read_name's loop and stays in the loop
NameIteration ==
  /\ InNameLoop
  /\ pc' = "parsing"
  /\ Len(stack') = Len(stack)
  /\ stack'[1].fn = "read_name"
  /\ Len(stack'[1].v) = Len(top.v) + 1

\* a step that runs the body of the array-dimension loop
DimIteration == At("read_var_type", 565) /\ top.i < top.n

\* C1: every iteration of the name-path loop of read_name and of the
\* array-dimension loop of read_var_type shortens the cursor, so the number
\* of iterations is bounded by the input length and parse terminates.
C1_IterationsConsume ==
  [][(NameIteration \/ DimIteration) => input'.len < input.len]_vars

NotMangled == buf = <<>> \/ buf[1] # "?"

\* C2: for an input whose first byte is not '?', parse ends with an empty
\* error, type.prim = Unknown and the whole input as the single symbol
\* fragment, and str() returns the input byte for byte.
C2_NotMangledIsEchoed ==
  (NotMangled /\ Finished) =>
     /\ pc \in {"parsed", "printed"}
     /\ error = NoError
     /\ types[0].prim = "Unknown"
     /\ symbol = <<buf>>
     /\ (pc = "printed" => os = buf)

\* C3: first error wins: once the error slot is non-empty, no later step of
\* parse consumes input or writes the error slot again.
C3_FirstErrorWins ==
  [][(pc = "parsing" /\ error # NoError) =>
       /\ error' = error
       /\ input' = input
       /\ CountOp(ops', "error") = 0]_vars

\* what the log entry k of a step says about the cursor
PrimitiveInBounds(k) ==
  LET e == ops[k]
  IN  /\ e.op = "trim" => e.n <= e.len
      /\ e.op = "peek" => e.at \in 0..(Len(buf) - 1)
      /\ e.op = "get" => (e.c = EOF <=> e.len = 0)
      /\ e.op = "unget" =>
           /\ k > 1
           /\ ops[k - 1].op = "get"
           /\ ops[k - 1].c = e.c
           /\ e.p = ops[k - 1].p
           /\ e.len = ops[k - 1].len

Allocated == 0..(IF type_index <= TypeBufferSize THEN type_index ELSE TypeBufferSize)

\* C5: after a parse that ends with an empty error, every Array node has
\* len > 0 and a non-null ptr.
C5_ArraysWellFormed ==
  (pc = "parsed" /\ error = NoError) =>
     \A id \in Allocated :
        types[id].prim = "Array" => types[id].len > 0 /\ types[id].ptr # NULL

\* the distinct strings of a sequence, in the order of their first occurrence
RECURSIVE Distinct(_)
Distinct(names) ==
  IF names = <<>> THEN <<>>
  ELSE LET front == Distinct(SubSeq(names, 1, Len(names) - 1))
           last == names[Len(names)]
       IN  IF last \in Range(front) THEN front ELSE Append(front, last)

AtBackRef == InNameLoop /\ input.len > 0 /\ IsDigit(buf[input.p + 1])

\* C6: a back-reference digit k resolves to the (k+1)-th distinct identifier
\* the name reader has read so far, and fails with the bad-back-reference
\* error when there are no more than k of them.  (While the table is not
\* full it holds every identifier the name reader has read.)
C6_BackRefCitesDistinct ==
  [][(AtBackRef /\ Len(repeated_names) < MaxRepeatedNames /\ Len(top.v) < MaxNames) =>
       LET k == DigitVal(buf[input.p + 1])
           seen == Distinct(repeated_names)
       IN  IF k < Len(seen)
           THEN /\ pc' = "parsing"
                /\ stack'[1].fn = "read_name"
                /\ stack'[1].v = Append(top.v, seen[k + 1])
           ELSE error'.msg = "name reference too large: "]_vars

\* a step in which the name reader reads an identifier element
IdentifierStep ==
  /\ NameIteration
  /\ ~(input.len > 0 /\ IsDigit(buf[input.p + 1]))

\* C7: the back-reference table never holds more than 10 entries; an
\* identifier element read by the name reader is appended to it iff it held
\* fewer than 10 before; a back-reference digit, like every other step, adds
\* nothing.
C7_TableCapped ==
  /\ [](Len(repeated_names) <= MaxRepeatedNames)
  /\ [][IF IdentifierStep
        THEN repeated_names' =
               IF Len(repeated_names) < MaxRepeatedNames
               THEN Append(repeated_names, stack'[1].v[Len(stack'[1].v)])
               ELSE repeated_names
        ELSE repeated_names' = repeated_names]_vars

\* the name reader has returned an 11th identifier that is not in the table
C7_Witness ==
  /\ InNameLoop
  /\ error = NoError
  /\ Len(repeated_names) = MaxRepeatedNames
  /\ Len(top.v) > MaxRepeatedNames
  /\ top.v[Len(top.v)] \notin Range(repeated_names)

SymbolG == <<"?", "g", "@", "@", "Y", "A", "P", "A", "H", "H", "@", "Z">>
SymbolH == <<"?", "h", "@", "@", "Y", "A", "H", "Q", "A", "Y", "0", "1", "H", "@", "Z">>
SymbolX == <<"?", "x", "@", "@", "3", "P", "A", "Y", "0", "B", "E", "@", "H">>

ByteAt(i) == IF i \in 0..(Len(buf) - 1) THEN buf[i + 1] ELSE "OOB"

RECURSIVE HexRun(_)
HexRun(i) == IF IsHexDigit(ByteAt(i)) THEN 1 + HexRun(i + 1) ELSE 0

RECURSIVE HexValue(_, _)
HexValue(i, n) ==
  IF n = 0 THEN 0 ELSE HexValue(i, n - 1) * 16 + HexVal(ByteAt(i + n - 1))

GrammarNumber(at) ==
  LET neg == ByteAt(at) = "?"
      b == IF neg THEN at + 1 ELSE at
      sign == IF neg THEN 1 ELSE 0
      run == HexRun(b)
  IN  IF IsDigit(ByteAt(b))
      THEN [ok |-> TRUE, val |-> Negate(neg, DigitVal(ByteAt(b)) + 1), len |-> sign + 1]
      ELSE IF run >= 1 /\ ByteAt(b + run) = "@"
           THEN [ok |-> TRUE, val |-> Negate(neg, HexValue(b, run)), len |-> sign + run + 1]
           ELSE [ok |-> FALSE, val |-> 0, len |-> 0]

\* C9: read_number accepts exactly the strings of the number grammar,
\* returns their value and consumes exactly their bytes; on any other
\* prefix, a bare '@' included, it sets the bad-number error.
C9_NumberGrammar ==
  \A k \in 1..Len(ops) :
     ops[k].op = "read_number" =>
        LET g == GrammarNumber(ops[k].at)
        IN  IF g.ok
            THEN ops[k].ok /\ ops[k].ret = g.val /\ ops[k].end = ops[k].at + g.len
            ELSE ~ops[k].ok

IsPrefix(s, t) == Len(s) <= Len(t) /\ SubSeq(t, 1, Len(s)) = s

\* the enclosing scopes name[n], ..., name[2], each followed by "::"
RECURSIVE Scopes(_, _)
Scopes(name, n) ==
  IF n < 2 THEN <<>> ELSE name[n] \o <<":", ":">> \o Scopes(name, n - 1)

StructorHead(name) ==
  LET c == substr(name[1], 2)
  IN  Scopes(name, Len(name)) \o c
        \o (IF name[1][2] = "0" THEN <<":", ":">> ELSE <<":", ":", "~">>)
        \o c \o <<"(">>

IsStructor ==
  /\ symbol # <<>>
  /\ FragStartsWith(symbol[1], <<"?", "0">>) \/ FragStartsWith(symbol[1], <<"?", "1">>)
  /\ types[0].prim = "Function"
  /\ types[types[0].ptr].prim = "None"

\* (only read_func_return_type, on the member-function path, sets prim = None,
\* and only when it consumes '@')
\* C10: a member-function symbol whose innermost fragment is ?0C or ?1C and
\* whose return type is encoded as '@' prints no return-type text: the
\* output is the enclosing scopes joined by "::", then C::C(params) or
\* C::~C(params).
C10_StructorOutput ==
  (pc = "printed" /\ IsStructor) =>
     /\ IsPrefix(StructorHead(symbol), os)
     /\ os[Len(os)] = ")"

\* C11: type-node allocation never leaves the inline pool: in every
\* reachable state every call of alloc() so far has handed out a slot of
\* type_buffer with index < 20 (type_index counts the calls, and the k-th
\* call hands out index k - 1), and no step has formed or written through a
\* pointer past the end of type_buffer.
C11_AllocStaysInPool ==
  /\ type_index <= TypeBufferSize
  /\ pc # "ub"

====
